---- MODULE Spec2Model ----
(***************************************************************************)
(* Model of src/main.py: a Telegram bot whose /start_session <minutes>     *)
(* command schedules a 10-minute reminder, a 5-minute reminder and an      *)
(* end-of-session message on the framework's job queue, after removing the *)
(* jobs it recorded for the chat on the previous /start_session.           *)
(*                                                                         *)
(* Texts are sequences of one-character strings, so that int() is a real   *)
(* parse.  Time is in seconds.  The job queue is the sequence `jobs` of    *)
(* every job ever created (the index is the job handle); a job is          *)
(* "scheduled", "fired" or "cancelled".  A job also records what the       *)
(* properties need of its history: the command update that created it      *)
(* (call), when it was created (created_at) and, once it has run, when     *)
(* (fired_at) and after how many command updates (fired_after).            *)
(***************************************************************************)
EXTENDS Integers, Sequences, FiniteSets, TLC

VARIABLES
    now,        \* the clock of the event loop, in seconds
    jobs,       \* the job queue: every job created so far, by handle
    chat_data,  \* context.chat_data of every chat
    handler,    \* the frame of the command handler coroutine
    outbox,     \* the messages handed to the transport, in order
    ncalls,     \* number of command updates dispatched so far
    app         \* the process: TELEGRAM_BOT_TOKEN, where main() is, the
                \* commands that have a handler

vars == <<now, jobs, chat_data, handler, outbox, ncalls, app>>

(***************************************************************************)
(* Bounds of the model.                                                    *)
(***************************************************************************)
MaxCalls == 2        \* command updates dispatched in one run
MaxTime == 900       \* no update arrives after this instant (seconds)
TickSeconds == 600   \* granularity of the instants at which updates arrive

Chats == {101, 202}

\* The values TELEGRAM_BOT_TOKEN is tried with: unset, empty, a token.
Tokens == {[some |-> FALSE], [some |-> TRUE, v |-> ""],
           [some |-> TRUE, v |-> "123:abc"]}

\* The argument lists the commands are tried with.
ArgLists ==
    { <<>>,
      << <<"a", "b", "c">> >>,
      << <<"-", "5">> >>,
      << <<"0">> >>,
      << <<"5">> >>,
      << <<"1", "0">> >>,
      << <<"+", "1", "1">>, <<"x">> >> }

(***************************************************************************)
(* Optional values: Python's None and not-None.                            *)
(***************************************************************************)
None == [some |-> FALSE]
Some(v) == [some |-> TRUE, v |-> v]

Min(S) == CHOOSE x \in S : \A y \in S : x <= y

(***************************************************************************)
(* int(text): Python's integer parse of a str, base 10.                    *)
(***************************************************************************)
IsSpace(ch) == ch \in {" "}
Digits == {"0", "1", "2", "3", "4", "5", "6", "7", "8", "9"}

DigitVal(ch) ==
    CASE ch = "0" -> 0 [] ch = "1" -> 1 [] ch = "2" -> 2 [] ch = "3" -> 3
      [] ch = "4" -> 4 [] ch = "5" -> 5 [] ch = "6" -> 6 [] ch = "7" -> 7
      [] ch = "8" -> 8 [] ch = "9" -> 9

RECURSIVE lstrip(_)
lstrip(s) == IF s # <<>> /\ IsSpace(Head(s)) THEN lstrip(Tail(s)) ELSE s

RECURSIVE rstrip(_)
rstrip(s) ==
    IF s # <<>> /\ IsSpace(s[Len(s)]) THEN rstrip(SubSeq(s, 1, Len(s) - 1)) ELSE s

strip(s) == rstrip(lstrip(s))

\* The digit part of an integer literal: digits, single underscores between them.
WellFormedDigits(b) ==
    /\ b # <<>>
    /\ b[1] \in Digits
    /\ b[Len(b)] \in Digits
    /\ \A i \in 1..Len(b) : b[i] \in Digits \cup {"_"}
    /\ \A i \in 1..(Len(b) - 1) : ~(b[i] = "_" /\ b[i + 1] = "_")

RECURSIVE DigitsValue(_, _)
DigitsValue(b, acc) ==
    IF b = <<>> THEN acc
    ELSE IF Head(b) = "_" THEN DigitsValue(Tail(b), acc)
    ELSE DigitsValue(Tail(b), 10 * acc + DigitVal(Head(b)))

\* [ok |-> FALSE] stands for ValueError.
int(text) ==
    LET s == strip(text)
        signed == s # <<>> /\ Head(s) \in {"+", "-"}
        body == IF signed THEN Tail(s) ELSE s
        sign == IF signed /\ Head(s) = "-" THEN -1 ELSE 1
    IN  IF WellFormedDigits(body)
        THEN [ok |-> TRUE, v |-> sign * DigitsValue(body, 0)]
        ELSE [ok |-> FALSE]

\* _validate_minutes with the test minutes >= 0
_validate_minutes_NonNegative(text) ==
    LET r == int(text)
    IN  IF ~r.ok THEN None
        ELSE IF r.v >= 0 THEN Some(r.v) ELSE None

_validate_minutes(text) ==
    LET r == int(text)
    IN  IF ~r.ok THEN None
        ELSE IF r.v > 0 THEN Some(r.v) ELSE None

(***************************************************************************)
(* The job queue.                                                          *)
(***************************************************************************)
\* job_queue.run_once(callback, when=..., chat_id=..., data=..., name=...):
\* the queue with the new job appended; its handle is Len(q) + 1.
run_once(q, callback, when, chat_id, data, name, t, call) ==
    Append(q, [callback |-> callback, when |-> when, run_at |-> t + when,
               chat_id |-> chat_id, data |-> data, name |-> name,
               state |-> "scheduled", call |-> call, created_at |-> t,
               fired_at |-> None, fired_after |-> None])

\* schedule_removal marking the job cancelled whatever its state
schedule_removal_Always(q, id) == [q EXCEPT ![id].state = "cancelled"]

\* job.schedule_removal(): the job is taken off the queue and will not run.
\* The framework is not part of the sources; for a job that is no longer on the
\* queue (it ran, or was removed) the specification's reading is taken: the
\* call does nothing and raises nothing.
schedule_removal(q, id) ==
    IF q[id].state = "scheduled"
    THEN [q EXCEPT ![id].state = "cancelled"]
    ELSE q

\* the loop leaving after its first job
RemoveAll_FirstOnly(q, ids) ==
    IF ids = <<>> THEN q ELSE schedule_removal(q, Head(ids))

\* for job in session_jobs: job.schedule_removal()
RECURSIVE RemoveAll(_, _)
RemoveAll(q, ids) ==
    IF ids = <<>> THEN q
    ELSE RemoveAll(schedule_removal(q, Head(ids)), Tail(ids))

(***************************************************************************)
(* Python dicts and truthiness.                                            *)
(***************************************************************************)
EmptyDict == [k \in {} |-> 0]
DictGet(d, k) == IF k \in DOMAIN d THEN Some(d[k]) ELSE None
DictSet(d, k, v) == [x \in (DOMAIN d) \cup {k} |-> IF x = k THEN v ELSE d[x]]

\* `if x:` for x an int or None
TruthyInt(x) == x.some /\ x.v # 0
\* `if x:` for x a list or None
TruthyList(x) == x.some /\ x.v # <<>>
\* `if x:` for x a str or None
TruthyStr(x) == x.some /\ x.v # ""

(***************************************************************************)
(* start_session, lines 86-124: the part between the checks of the         *)
(* argument and the confirmation reply.  It holds no await.                *)
(***************************************************************************)
\* lines 87-88
EnsureSessions(d) ==
    IF "sessions" \in DOMAIN d THEN d ELSE DictSet(d, "sessions", EmptyDict)

\* the removal of every job on the queue, whichever chat it belongs to
CancelSessionJobs_AllChats(q, session_jobs) ==
    RemoveAll(q, [i \in 1..Len(q) |-> i])

\* the removal of the recorded jobs left out
CancelSessionJobs_Skip(q, session_jobs) == q

\* lines 89-92: the queue after the removal of the recorded jobs
CancelSessionJobs(q, session_jobs) ==
    IF TruthyList(session_jobs) THEN RemoveAll(q, session_jobs.v) ELSE q

\* schedule_reminder with the reminder due minutes_left minutes from now
schedule_reminder_DueFromOffset(q, total_minutes, minutes_left, chat_id, t, call) ==
    IF total_minutes > minutes_left
    THEN LET due_seconds == minutes_left * 60
             q2 == run_once(q, "send_reminder", due_seconds, chat_id,
                            [minutes_left |-> minutes_left, total |-> total_minutes],
                            <<"reminder", minutes_left, chat_id>>, t, call)
         IN  [q |-> q2, job |-> Some(Len(q2))]
    ELSE [q |-> q, job |-> None]

\* schedule_reminder with the test total_minutes >= minutes_left
schedule_reminder_AtLeast(q, total_minutes, minutes_left, chat_id, t, call) ==
    IF total_minutes >= minutes_left
    THEN LET due_seconds == (total_minutes - minutes_left) * 60
             q2 == run_once(q, "send_reminder", due_seconds, chat_id,
                            [minutes_left |-> minutes_left, total |-> total_minutes],
                            <<"reminder", minutes_left, chat_id>>, t, call)
         IN  [q |-> q2, job |-> Some(Len(q2))]
    ELSE [q |-> q, job |-> None]

\* lines 97-108: the queue after schedule_reminder(minutes_left), and its result
schedule_reminder(q, total_minutes, minutes_left, chat_id, t, call) ==
    IF total_minutes > minutes_left
    THEN LET due_seconds == (total_minutes - minutes_left) * 60
             q2 == run_once(q, "send_reminder", due_seconds, chat_id,
                            [minutes_left |-> minutes_left, total |-> total_minutes],
                            <<"reminder", minutes_left, chat_id>>, t, call)
         IN  [q |-> q2, job |-> Some(Len(q2))]
    ELSE [q |-> q, job |-> None]

\* the end-of-session job due after total_minutes seconds instead of minutes
schedule_session_end_Minutes(q, total_minutes, chat_id, t, call) ==
    LET q2 == run_once(q, "send_session_end", total_minutes, chat_id,
                       [total |-> total_minutes],
                       <<"session_end", chat_id>>, t, call)
    IN  [q |-> q2, job |-> Some(Len(q2))]

\* lines 115-121
schedule_session_end(q, total_minutes, chat_id, t, call) ==
    LET q2 == run_once(q, "send_session_end", total_minutes * 60, chat_id,
                       [total |-> total_minutes],
                       <<"session_end", chat_id>>, t, call)
    IN  [q |-> q2, job |-> Some(Len(q2))]

\* only the last job (job_end) recorded
StoredJobs_OnlyEnd(js) == <<js[Len(js)].v>>

\* line 124: [job for job in (job_10, job_5, job_end) if job]
RECURSIVE StoredJobs(_)
StoredJobs(js) ==
    IF js = <<>> THEN <<>>
    ELSE IF Head(js).some THEN <<Head(js).v>> \o StoredJobs(Tail(js))
    ELSE StoredJobs(Tail(js))

\* start_session adding the new handles to the recorded list
Schedule_Extend(q, cd, chat_id, total_minutes, t, call) ==
    LET cd1 == EnsureSessions(cd)
        session_jobs == DictGet(cd1["sessions"], chat_id)
        q0 == CancelSessionJobs(q, session_jobs)
        r10 == schedule_reminder(q0, total_minutes, 10, chat_id, t, call)
        r5 == schedule_reminder(r10.q, total_minutes, 5, chat_id, t, call)
        rend == schedule_session_end(r5.q, total_minutes, chat_id, t, call)
        stored == StoredJobs(<<r10.job, r5.job, rend.job>>)
        old == IF session_jobs.some THEN session_jobs.v ELSE <<>>
    IN  [jobs |-> rend.q,
         chat_data |-> [cd1 EXCEPT !["sessions"] = DictSet(@, chat_id, old \o stored)],
         session_jobs |-> session_jobs,
         job_10 |-> r10.job, job_5 |-> r5.job, job_end |-> rend.job]

\* Everything start_session computes for a valid total_minutes.
Schedule(q, cd, chat_id, total_minutes, t, call) ==
    LET cd1 == EnsureSessions(cd)
        session_jobs == DictGet(cd1["sessions"], chat_id)
        q0 == CancelSessionJobs(q, session_jobs)
        r10 == schedule_reminder(q0, total_minutes, 10, chat_id, t, call)
        r5 == schedule_reminder(r10.q, total_minutes, 5, chat_id, t, call)
        rend == schedule_session_end(r5.q, total_minutes, chat_id, t, call)
        stored == StoredJobs(<<r10.job, r5.job, rend.job>>)
    IN  [jobs |-> rend.q,
         chat_data |-> [cd1 EXCEPT !["sessions"] = DictSet(@, chat_id, stored)],
         session_jobs |-> session_jobs,
         job_10 |-> r10.job, job_5 |-> r5.job, job_end |-> rend.job]

(***************************************************************************)
(* Messages handed to the transport.  `by` tells which command update      *)
(* (for a reply) or which job (for a notification) sent the message.       *)
(***************************************************************************)
\* every reply of the handler saying that the session was set
Reply_Confirmation(chat_id, kind, call) ==
    [chat_id |-> chat_id, kind |-> "confirmation", by |-> call]

Reply(chat_id, kind, call) == [chat_id |-> chat_id, kind |-> kind, by |-> call]

ConfirmationReply(chat_id, total_minutes, call) ==
    [chat_id |-> chat_id, kind |-> "confirmation", total |-> total_minutes,
     by |-> call]

\* send_reminder skipping every reminder of five minutes or less
send_reminder_Strict(q, id) ==
    LET job == q[id]
        minutes_left == DictGet(job.data, "minutes_left")
        total == DictGet(job.data, "total")
    IN  IF TruthyInt(minutes_left) /\ TruthyInt(total) /\ minutes_left.v > 5
        THEN << [chat_id |-> job.chat_id, kind |-> "reminder",
                 minutes_left |-> minutes_left.v, total |-> total.v, by |-> id] >>
        ELSE <<>>

\* send_reminder: the messages the callback of job `id` sends
send_reminder(q, id) ==
    LET job == q[id]
        minutes_left == DictGet(job.data, "minutes_left")
        total == DictGet(job.data, "total")
    IN  IF TruthyInt(minutes_left) /\ TruthyInt(total)
        THEN << [chat_id |-> job.chat_id, kind |-> "reminder",
                 minutes_left |-> minutes_left.v, total |-> total.v, by |-> id] >>
        ELSE <<>>

\* send_session_end
send_session_end(q, id) ==
    LET job == q[id]
        total == DictGet(job.data, "total")
    IN  << [chat_id |-> job.chat_id, kind |-> "session_end",
            total |-> total, by |-> id] >>

(***************************************************************************)
(* The state machine.                                                      *)
(***************************************************************************)
Idle == [pc |-> "idle"]

Init ==
    /\ now = 0
    /\ jobs = <<>>
    /\ chat_data = [c \in Chats |-> EmptyDict]
    /\ handler = Idle
    /\ outbox = <<>>
    /\ ncalls = 0
    /\ \E t \in Tokens : app = [token |-> t, pc |-> "start", handlers |-> {}]

Polling == app.pc = "polling"

\* main going on without looking at the token
CheckToken_Skip ==
    /\ app.pc = "start"
    /\ app' = [app EXCEPT !.pc = "built"]
    /\ UNCHANGED <<now, jobs, chat_data, handler, outbox, ncalls>>

\* main, lines 160-163: without a token it raises RuntimeError
CheckToken ==
    /\ app.pc = "start"
    /\ app' = [app EXCEPT !.pc = IF ~TruthyStr(app.token) THEN "aborted" ELSE "built"]
    /\ UNCHANGED <<now, jobs, chat_data, handler, outbox, ncalls>>

\* main, lines 173-174: add_handler(CommandHandler(cmd, ...)), "start" first
AddHandler(cmd) ==
    /\ app.pc = "built"
    /\ cmd \notin app.handlers
    /\ cmd = "start_session" => "start" \in app.handlers
    /\ app' = [app EXCEPT !.handlers = @ \cup {cmd}]
    /\ UNCHANGED <<now, jobs, chat_data, handler, outbox, ncalls>>

\* main, line 177: application.run_polling()
RunPolling ==
    /\ app.pc = "built"
    /\ app.handlers = {"start", "start_session"}
    /\ app' = [app EXCEPT !.pc = "polling"]
    /\ UNCHANGED <<now, jobs, chat_data, handler, outbox, ncalls>>

\* An update is dispatched, to the handler of its command, only while the
\* application polls and when the previous handler has returned.  The model
\* takes MaxCalls updates, none of them after MaxTime.
Dispatch(cmd) ==
    /\ Polling
    /\ cmd \in app.handlers
    /\ handler.pc = "idle"
    /\ ncalls < MaxCalls
    /\ now <= MaxTime
    /\ ncalls' = ncalls + 1
    /\ UNCHANGED app

\* /start
StartCommand(c) ==
    /\ Dispatch("start")
    /\ outbox' = Append(outbox, Reply(c, "welcome", ncalls + 1))
    /\ handler' = [pc |-> "await_reply", cmd |-> "start", chat_id |-> c,
                   call |-> ncalls + 1, reply |-> "welcome"]
    /\ UNCHANGED <<now, jobs, chat_data>>

\* start_session removing the recorded jobs before it looks at its arguments
StartSession_CancelFirst(c, args) ==
    /\ Dispatch("start_session")
    /\ LET call == ncalls + 1
           frame == [pc |-> "await_reply", cmd |-> "start_session",
                     chat_id |-> c, args |-> args, call |-> call]
           cd1 == EnsureSessions(chat_data[c])
           q1 == CancelSessionJobs(jobs, DictGet(cd1["sessions"], c))
       IN  IF args = <<>>
           THEN /\ outbox' = Append(outbox, Reply(c, "usage_error", call))
                /\ handler' = frame @@ [reply |-> "usage_error"]
                /\ jobs' = q1
                /\ chat_data' = [chat_data EXCEPT ![c] = cd1]
           ELSE LET total_minutes == _validate_minutes(args[1])
                IN  IF ~total_minutes.some
                    THEN /\ outbox' = Append(outbox, Reply(c, "invalid_input", call))
                         /\ handler' = frame @@ [reply |-> "invalid_input"]
                         /\ jobs' = q1
                         /\ chat_data' = [chat_data EXCEPT ![c] = cd1]
                    ELSE LET r == Schedule(jobs, chat_data[c], c,
                                           total_minutes.v, now, call)
                         IN  /\ jobs' = r.jobs
                             /\ chat_data' = [chat_data EXCEPT ![c] = r.chat_data]
                             /\ outbox' = Append(outbox,
                                    ConfirmationReply(c, total_minutes.v, call))
                             /\ handler' = frame @@
                                    [reply |-> "confirmation",
                                     total_minutes |-> total_minutes.v,
                                     session_jobs |-> r.session_jobs,
                                     job_10 |-> r.job_10, job_5 |-> r.job_5,
                                     job_end |-> r.job_end]
    /\ UNCHANGED now

\* /start_session with the arguments `args`, up to its await
StartSession(c, args) ==
    /\ Dispatch("start_session")
    /\ LET call == ncalls + 1
           frame == [pc |-> "await_reply", cmd |-> "start_session",
                     chat_id |-> c, args |-> args, call |-> call]
       IN  IF args = <<>>
           THEN /\ outbox' = Append(outbox, Reply(c, "usage_error", call))
                /\ handler' = frame @@ [reply |-> "usage_error"]
                /\ UNCHANGED <<jobs, chat_data>>
           ELSE LET total_minutes == _validate_minutes(args[1])
                IN  IF ~total_minutes.some
                    THEN /\ outbox' = Append(outbox, Reply(c, "invalid_input", call))
                         /\ handler' = frame @@ [reply |-> "invalid_input"]
                         /\ UNCHANGED <<jobs, chat_data>>
                    ELSE LET r == Schedule(jobs, chat_data[c], c,
                                           total_minutes.v, now, call)
                         IN  /\ jobs' = r.jobs
                             /\ chat_data' = [chat_data EXCEPT ![c] = r.chat_data]
                             /\ outbox' = Append(outbox,
                                    ConfirmationReply(c, total_minutes.v, call))
                             /\ handler' = frame @@
                                    [reply |-> "confirmation",
                                     total_minutes |-> total_minutes.v,
                                     session_jobs |-> r.session_jobs,
                                     job_10 |-> r.job_10, job_5 |-> r.job_5,
                                     job_end |-> r.job_end]
    /\ UNCHANGED now

\* The awaited reply_text completes and the handler returns.
HandlerReturn ==
    /\ handler.pc = "await_reply"
    /\ handler' = Idle
    /\ UNCHANGED <<now, jobs, chat_data, outbox, ncalls, app>>

\* the callback also taking its job off the chat's recorded list
Fire_Discard(id) ==
    /\ Polling
    /\ jobs[id].state = "scheduled"
    /\ now >= jobs[id].run_at
    /\ jobs' = [jobs EXCEPT ![id].state = "fired",
                             ![id].fired_at = Some(now),
                             ![id].fired_after = Some(ncalls)]
    /\ outbox' = outbox \o
          (IF jobs[id].callback = "send_reminder"
           THEN send_reminder(jobs, id) ELSE send_session_end(jobs, id))
    /\ LET c == jobs[id].chat_id
           Keep(x) == x # id
       IN  chat_data' = [chat_data EXCEPT ![c]["sessions"][c] = SelectSeq(@, Keep)]
    /\ UNCHANGED <<now, handler, ncalls, app>>

\* the job queue running a job whatever its state
Fire_AnyState(id) ==
    /\ Polling
    /\ now >= jobs[id].run_at
    /\ jobs[id].state # "fired"
    /\ jobs' = [jobs EXCEPT ![id].state = "fired",
                             ![id].fired_at = Some(now),
                             ![id].fired_after = Some(ncalls)]
    /\ outbox' = outbox \o
          (IF jobs[id].callback = "send_reminder"
           THEN send_reminder(jobs, id) ELSE send_session_end(jobs, id))
    /\ UNCHANGED <<now, chat_data, handler, ncalls, app>>

\* The job queue runs job `id`, which is due.
Fire(id) ==
    /\ Polling
    /\ jobs[id].state = "scheduled"
    /\ now >= jobs[id].run_at
    /\ jobs' = [jobs EXCEPT ![id].state = "fired",
                             ![id].fired_at = Some(now),
                             ![id].fired_after = Some(ncalls)]
    /\ outbox' = outbox \o
          (IF jobs[id].callback = "send_reminder"
           THEN send_reminder(jobs, id) ELSE send_session_end(jobs, id))
    /\ UNCHANGED <<now, chat_data, handler, ncalls, app>>

\* The instants after now at which something can happen: the next instant at
\* which updates arrive, while there is one, and the instants at which
\* scheduled jobs are due.
Instants ==
    {t \in {((now \div TickSeconds) + 1) * TickSeconds} : t <= MaxTime}
    \cup {jobs[i].run_at : i \in {j \in DOMAIN jobs :
              jobs[j].state = "scheduled" /\ jobs[j].run_at > now}}

NextInstant == Min(Instants)

\* Time passes, up to the next instant at which something can happen; a job
\* that is due runs before the clock moves on.
Tick ==
    /\ Polling
    /\ \A i \in DOMAIN jobs : jobs[i].state = "scheduled" => jobs[i].run_at > now
    /\ Instants # {}
    /\ now' = NextInstant
    /\ UNCHANGED <<jobs, chat_data, handler, outbox, ncalls, app>>

Next ==
    \/ CheckToken
    \/ \E cmd \in {"start", "start_session"} : AddHandler(cmd)
    \/ RunPolling
    \/ \E c \in Chats : StartCommand(c)
    \/ \E c \in Chats, args \in ArgLists : StartSession(c, args)
    \/ HandlerReturn
    \/ \E id \in DOMAIN jobs : Fire(id)
    \/ Tick

Spec == Init /\ [][Next]_vars

(***************************************************************************)
(* Vocabulary of the properties.                                           *)
(***************************************************************************)
\* The minutes each argument list of ArgLists asks for, written out by hand;
\* 0 for the argument lists that are no request for a session.
ExpectedMinutes(args) ==
    CASE args = << <<"5">> >> -> 5
      [] args = << <<"1", "0">> >> -> 10
      [] args = << <<"+", "1", "1">>, <<"x">> >> -> 11
      [] OTHER -> 0

\* The handler has run /start_session with `args` and awaits its reply.
InStartSession ==
    handler.pc = "await_reply" /\ handler.cmd = "start_session"

\* The handler has run a /start_session that asked for a positive number of minutes.
InValidStartSession ==
    InStartSession /\ handler.args # <<>> /\ ExpectedMinutes(handler.args) > 0

JobIds == DOMAIN jobs
ChatJobs(c) == {i \in JobIds : jobs[i].chat_id = c}
CallJobs(n) == {i \in JobIds : jobs[i].call = n}
Scheduled(c) == {i \in ChatJobs(c) : jobs[i].state = "scheduled"}

\* The jobs of command update n that are the k-minute reminder / the end of session.
Reminders(n, k) ==
    {i \in CallJobs(n) : /\ jobs[i].callback = "send_reminder"
                         /\ jobs[i].data = [minutes_left |-> k, total |-> jobs[i].data.total]}
Ends(n) == {i \in CallJobs(n) : jobs[i].callback = "send_session_end"}

\* The jobs that start_session(c, m), run as command update n at time t, is to
\* create: S is exactly that set of jobs.
ImpliedBy(S, n, c, m) ==
    /\ S = Reminders(n, 10) \cup Reminders(n, 5) \cup Ends(n)
    /\ Cardinality(Reminders(n, 10)) = (IF m > 10 THEN 1 ELSE 0)
    /\ Cardinality(Reminders(n, 5)) = (IF m > 5 THEN 1 ELSE 0)
    /\ Cardinality(Ends(n)) = 1
    /\ \A i \in Reminders(n, 10) : jobs[i].when = (m - 10) * 60
    /\ \A i \in Reminders(n, 5) : jobs[i].when = (m - 5) * 60
    /\ \A i \in Ends(n) : jobs[i].when = m * 60
    /\ \A i \in S : /\ jobs[i].chat_id = c
                    /\ jobs[i].run_at = jobs[i].created_at + jobs[i].when

(***************************************************************************)
(* C1.  A successful start_session(c, m) creates exactly one 10-minute     *)
(* reminder iff m > 10, one 5-minute reminder iff m > 5, and always        *)
(* exactly one end-of-session job due at m*60 seconds, and nothing else:   *)
(* m = 5 gives only the end job at 300 s, m = 10 the 5-minute reminder at  *)
(* 300 s and the end job at 600 s.                                         *)
(***************************************************************************)
C1_ExactlyTheImpliedJobs ==
    InValidStartSession =>
        /\ handler.reply = "confirmation"
        /\ ImpliedBy(CallJobs(handler.call), handler.call, handler.chat_id,
                     ExpectedMinutes(handler.args))

\* /start_session 10 has just created two jobs: the 5-minute reminder at 300 s
\* and the end of session at 600 s.
C1_Witness ==
    /\ InValidStartSession
    /\ ExpectedMinutes(handler.args) = 10
    /\ {jobs[i].when : i \in CallJobs(handler.call)} = {300, 600}
    /\ Reminders(handler.call, 10) = {}

\* The command updates that were successful /start_session calls for chat c,
\* read off the confirmation replies, and the latest of them (0: none).
Confirmed(c) ==
    {outbox[k].by : k \in {x \in DOMAIN outbox :
                              outbox[x].kind = "confirmation" /\ outbox[x].chat_id = c}}
Max(S) == CHOOSE x \in S : \A y \in S : y <= x
LatestCall(c) == IF Confirmed(c) = {} THEN 0 ELSE Max(Confirmed(c))

\* The notifications job i has sent.
JobMsgs(ob, i) ==
    {k \in DOMAIN ob : ob[k].kind \in {"reminder", "session_end"} /\ ob[k].by = i}

(***************************************************************************)
(* C2.  When start_session(c, m1) is followed by start_session(c, m2),     *)
(* with any firings in between, then after the second call the scheduled   *)
(* jobs of c are exactly those implied by m2 (less the ones that have      *)
(* fired since), and no job of the m1 call fires after the second call.    *)
(***************************************************************************)
C2_SecondCallSupersedes ==
    /\ (InValidStartSession /\ \E i \in ChatJobs(handler.chat_id) :
                                    jobs[i].call < handler.call)
         => ImpliedBy(Scheduled(handler.chat_id)
                        \cup {i \in CallJobs(handler.call) : jobs[i].state = "fired"},
                      handler.call, handler.chat_id, ExpectedMinutes(handler.args))
    /\ \A i \in JobIds :
         jobs[i].state = "fired" =>
            \A j \in ChatJobs(jobs[i].chat_id) :
                ~(jobs[i].call < jobs[j].call /\ jobs[j].call <= jobs[i].fired_after.v)

\* A chat whose first session had a job fire and the others cancelled by a
\* second session, one of whose jobs has fired since.
C2_Witness ==
    \E c \in Chats : \E i, j, k \in ChatJobs(c) :
        /\ jobs[i].call < jobs[k].call /\ jobs[j].call < jobs[k].call
        /\ jobs[i].state = "fired" /\ jobs[j].state = "cancelled"
        /\ jobs[k].state = "fired"

(***************************************************************************)
(* C3.  In every reachable state all scheduled jobs of a chat were created *)
(* by the most recent successful start_session for that chat; so at most   *)
(* one end-of-session job, one 10-minute reminder and one 5-minute         *)
(* reminder are scheduled for a chat at any time.                          *)
(***************************************************************************)
C3_OneActiveSetPerChat ==
    \A c \in Chats :
        /\ Scheduled(c) \subseteq CallJobs(LatestCall(c))
        /\ Cardinality({i \in Scheduled(c) : jobs[i].callback = "send_session_end"}) <= 1
        /\ \A k \in {10, 5} :
              Cardinality({i \in Scheduled(c) :
                              /\ jobs[i].callback = "send_reminder"
                              /\ jobs[i].data.minutes_left = k}) <= 1

\* A chat on its second session: jobs of the first cancelled, jobs of the
\* second scheduled.
C3_Witness ==
    \E c \in Chats :
        /\ Cardinality(Confirmed(c)) = 2
        /\ Cardinality(Scheduled(c)) >= 2
        /\ \E i \in ChatJobs(c) : jobs[i].state = "cancelled"

(***************************************************************************)
(* C4.  A job goes scheduled -> fired or scheduled -> cancelled and        *)
(* nothing else: it is created scheduled, sends its notification only on   *)
(* the step that fires it, at most once, never after it was cancelled, and *)
(* once fired or cancelled it keeps that state, whatever is cancelled or   *)
(* started afterwards.                                                     *)
(***************************************************************************)
C4_JobStateMachine ==
    [][ /\ Len(jobs') >= Len(jobs)
        /\ \A i \in DOMAIN jobs' \ DOMAIN jobs :
              jobs'[i].state = "scheduled" /\ JobMsgs(outbox', i) = {}
        /\ \A i \in DOMAIN jobs :
              /\ jobs'[i].state # jobs[i].state =>
                    /\ jobs[i].state = "scheduled"
                    /\ jobs'[i].state \in {"fired", "cancelled"}
              /\ JobMsgs(outbox', i) # JobMsgs(outbox, i) =>
                    /\ jobs[i].state = "scheduled" /\ jobs'[i].state = "fired"
                    /\ JobMsgs(outbox, i) = {}
                    /\ Cardinality(JobMsgs(outbox', i)) = 1
      ]_vars

\* A fired job that a later start_session of its chat went on to cancel again,
\* next to a job that was cancelled while scheduled.
C4_Witness ==
    \E c \in Chats : \E i, j, k \in ChatJobs(c) :
        /\ jobs[i].state = "fired" /\ jobs[i].fired_after.v < jobs[k].call
        /\ jobs[i].call < jobs[k].call
        /\ jobs[j].state = "cancelled"

\* This step dispatches a /start_session update to the handler.
StartSessionStep ==
    handler.pc = "idle" /\ handler'.pc = "await_reply" /\ handler'.cmd = "start_session"

\* This step changes nothing but the reply of the given kind, sent to the chat
\* of the update.
OnlyReplies(kind) ==
    /\ handler'.reply = kind
    /\ outbox' = Append(outbox, [chat_id |-> handler'.chat_id, kind |-> kind,
                                 by |-> ncalls'])
    /\ jobs' = jobs
    /\ chat_data' = chat_data

(***************************************************************************)
(* C5.  /start_session with a first argument that is no positive integer   *)
(* ("-5", "0", "abc") sends the invalid-input reply and neither creates    *)
(* nor cancels a job: the recorded sets and every job of every chat are    *)
(* the same before and after the call.                                     *)
(***************************************************************************)
C5_InvalidInputChangesNothing ==
    [][ (StartSessionStep
           /\ handler'.args \in { << <<"-", "5">> >>, << <<"0">> >>,
                                  << <<"a", "b", "c">> >> })
        => OnlyReplies("invalid_input") ]_vars

\* /start_session -5 was answered with the invalid-input reply while the chat
\* had a session running, whose jobs are still scheduled and recorded.
C5_Witness ==
    /\ InStartSession
    /\ handler.args = << <<"-", "5">> >>
    /\ handler.reply = "invalid_input"
    /\ Scheduled(handler.chat_id) # {}
    /\ \A i \in Scheduled(handler.chat_id) :
          \E k \in DOMAIN chat_data[handler.chat_id]["sessions"][handler.chat_id] :
              chat_data[handler.chat_id]["sessions"][handler.chat_id][k] = i

(***************************************************************************)
(* C6.  /start_session with no argument sends the usage-error reply and    *)
(* changes no state: no job is created or cancelled, and a session running *)
(* for the chat keeps its scheduled jobs, which fire at their original     *)
(* offsets.                                                                *)
(***************************************************************************)
C6_MissingArgumentChangesNothing ==
    [][ (StartSessionStep /\ handler'.args = <<>>) => OnlyReplies("usage_error") ]_vars

\* A job of a running session fired, at its original time, after the chat got
\* the usage-error reply.
C6_Witness ==
    \E k \in DOMAIN outbox : \E i \in ChatJobs(outbox[k].chat_id) :
        /\ outbox[k].kind = "usage_error"
        /\ jobs[i].call < outbox[k].by
        /\ jobs[i].state = "fired"
        /\ jobs[i].fired_after.v >= outbox[k].by
        /\ jobs[i].fired_at.v = jobs[i].created_at + jobs[i].when

\* The list recorded for chat c (empty when there is none).
Recorded(c) ==
    IF "sessions" \in DOMAIN chat_data[c] /\ c \in DOMAIN chat_data[c]["sessions"]
    THEN chat_data[c]["sessions"][c]
    ELSE <<>>
RecordedSet(c) == {Recorded(c)[k] : k \in DOMAIN Recorded(c)}

\* The jobs the running start_session found recorded and that had fired or
\* been cancelled before it was dispatched.
StaleFound ==
    IF InValidStartSession /\ handler.reply = "confirmation" /\ handler.session_jobs.some
    THEN {handler.session_jobs.v[k] : k \in DOMAIN handler.session_jobs.v}
            \cap {i \in JobIds : jobs[i].call < handler.call
                                  /\ jobs[i].fired_after.some
                                  /\ jobs[i].fired_after.v < handler.call}
    ELSE {}

(***************************************************************************)
(* C7.  Cancellation is idempotent: when start_session(c, m) finds jobs    *)
(* recorded that have already fired (or were already cancelled), removing  *)
(* them has no effect - a fired job stays fired, its one notification      *)
(* stays sent once - and the call goes on to schedule and record the jobs  *)
(* implied by m and to confirm.                                            *)
(***************************************************************************)
C7_CancellationIdempotent ==
    /\ \A i \in JobIds :
          jobs[i].fired_after.some =>
             /\ jobs[i].state = "fired"
             /\ Cardinality(JobMsgs(outbox, i)) = 1
    /\ \A i \in JobIds :
          jobs[i].state = "cancelled" => JobMsgs(outbox, i) = {}
    /\ (InValidStartSession /\ handler.session_jobs.some) =>
          /\ handler.reply = "confirmation"
          /\ ImpliedBy(CallJobs(handler.call), handler.call, handler.chat_id,
                       ExpectedMinutes(handler.args))
          /\ RecordedSet(handler.chat_id) = CallJobs(handler.call)

\* start_session found a fired job recorded, next to one it cancelled.
C7_Witness ==
    /\ StaleFound # {}
    /\ \E k \in DOMAIN handler.session_jobs.v :
          jobs[handler.session_jobs.v[k]].state = "cancelled"

\* Position of job i in the firing order of its session: 10-minute reminder,
\* 5-minute reminder, end of session.
Rank(i) ==
    IF jobs[i].callback = "send_session_end" THEN 3
    ELSE IF jobs[i].data.minutes_left = 10 THEN 1 ELSE 2

\* Seconds after start_session at which job i is to fire, from its payload.
Offset(i) ==
    IF jobs[i].callback = "send_session_end" THEN jobs[i].data.total * 60
    ELSE (jobs[i].data.total - jobs[i].data.minutes_left) * 60

MsgIndex(i) == CHOOSE k \in JobMsgs(outbox, i) : TRUE

ConfirmationIndex(n) ==
    {k \in DOMAIN outbox : outbox[k].kind = "confirmation" /\ outbox[k].by = n}

(***************************************************************************)
(* C8.  For start_session(c, m) at time T, a reminder with offset k fires  *)
(* at T + (m - k)*60 and the end-of-session job at T + m*60, so the jobs   *)
(* of a session fire in the order 10-minute reminder, 5-minute reminder,   *)
(* end of session; the confirmation reply is sent by the call itself,      *)
(* before any of them fires.                                               *)
(***************************************************************************)
C8_FiringTimesAndOrder ==
    /\ \A i \in JobIds :
          jobs[i].state = "fired" =>
             /\ jobs[i].fired_at.v = jobs[i].created_at + Offset(i)
             /\ \E k \in ConfirmationIndex(jobs[i].call) :
                   /\ outbox[k].total = jobs[i].data.total
                   /\ outbox[k].chat_id = jobs[i].chat_id
                   /\ k < MsgIndex(i)
    /\ \A i, j \in JobIds :
          (jobs[i].call = jobs[j].call /\ Rank(i) < Rank(j) /\ jobs[j].state = "fired")
             => /\ jobs[i].state = "fired"
                /\ jobs[i].fired_at.v < jobs[j].fired_at.v
                /\ MsgIndex(i) < MsgIndex(j)
    /\ \A n \in 1..ncalls : Cardinality(ConfirmationIndex(n)) <= 1

\* The three jobs of an 11-minute session have fired 60 s, 360 s and 660 s
\* after the call.
C8_Witness ==
    \E i, j, k \in JobIds :
        /\ jobs[i].call = jobs[j].call /\ jobs[j].call = jobs[k].call
        /\ Rank(i) = 1 /\ Rank(j) = 2 /\ Rank(k) = 3
        /\ jobs[i].state = "fired" /\ jobs[j].state = "fired" /\ jobs[k].state = "fired"
        /\ jobs[i].fired_at.v = jobs[i].created_at + 60
        /\ jobs[j].fired_at.v = jobs[i].created_at + 360
        /\ jobs[k].fired_at.v = jobs[i].created_at + 660

(***************************************************************************)
(* C9.  start_session calls of different chats do not interfere: a         *)
(* /start_session of chat c, accepted or rejected, leaves the recorded set *)
(* and every job of every other chat d as they were, creates no job for d  *)
(* and sends d nothing.                                                    *)
(***************************************************************************)
C9_OtherChatsUntouched ==
    [][ StartSessionStep =>
          \A d \in Chats \ {handler'.chat_id} :
              /\ chat_data'[d] = chat_data[d]
              /\ \A i \in DOMAIN jobs' :
                    jobs'[i].chat_id = d => (i \in DOMAIN jobs /\ jobs'[i] = jobs[i])
              /\ \A i \in DOMAIN jobs : jobs[i].chat_id = d => jobs'[i] = jobs[i]
              /\ \A k \in DOMAIN outbox' \ DOMAIN outbox : outbox'[k].chat_id # d
      ]_vars

\* A successful /start_session of one chat has run while another chat had a
\* session running, which is still scheduled and recorded.
C9_Witness ==
    /\ InValidStartSession
    /\ \E d \in Chats \ {handler.chat_id} :
          /\ Scheduled(d) # {}
          /\ Scheduled(d) = RecordedSet(d)
    /\ Scheduled(handler.chat_id) # {}

(***************************************************************************)
(* C10.  Within one start_session the removal of the chat's old jobs is    *)
(* complete before a new job exists, and removal, creation and recording   *)
(* happen with no other handler or firing in between: no reachable state   *)
(* has old and new jobs of one chat scheduled together, the recorded list  *)
(* is always the whole set of jobs of one call, and a second call of the   *)
(* chat acts on the finished result of the first.                          *)
(***************************************************************************)
C10_CancelThenCreateAtomic ==
    /\ \A c \in Chats :
          /\ \A i, j \in Scheduled(c) : jobs[i].call = jobs[j].call
          /\ Scheduled(c) \subseteq RecordedSet(c)
          /\ RecordedSet(c) = CallJobs(LatestCall(c))
          /\ \A i \in RecordedSet(c) : \A j \in ChatJobs(c) \ RecordedSet(c) :
                j < i /\ jobs[j].state # "scheduled"
    /\ (InValidStartSession /\ handler.session_jobs.some) =>
          \A k \in DOMAIN handler.session_jobs.v :
             /\ jobs[handler.session_jobs.v[k]].state # "scheduled"
             /\ \A i \in CallJobs(handler.call) : handler.session_jobs.v[k] < i

\* While the second start_session of a chat awaits its reply, the jobs it
\* found are cancelled and the jobs it created are scheduled.
C10_Witness ==
    /\ InValidStartSession
    /\ handler.session_jobs.some
    /\ \E k \in DOMAIN handler.session_jobs.v :
          jobs[handler.session_jobs.v[k]].state = "cancelled"
    /\ Cardinality(Scheduled(handler.chat_id)) = 3
    /\ Scheduled(handler.chat_id) = CallJobs(handler.call)

(***************************************************************************)
(* C11.  If the bot token is absent at startup, main() aborts before any   *)
(* command handler is registered and before polling begins: in a run       *)
(* started without the token no command is ever handled and no job is ever *)
(* scheduled.                                                              *)
(***************************************************************************)
C11_NoTokenNoStartup ==
    ~app.token.some =>
        /\ app.pc \in {"start", "aborted"}
        /\ app.handlers = {}
        /\ ncalls = 0 /\ handler = Idle
        /\ jobs = <<>> /\ outbox = <<>>

\* main() has raised for want of the token.
C11_Witness == ~app.token.some /\ app.pc = "aborted"

\* 1 if b, else 0
Count(b) == IF b THEN 1 ELSE 0

(***************************************************************************)
(* C12.  Right after a successful start_session(c, m) the list recorded    *)
(* for c is exactly the handles that call created - the end-of-session     *)
(* handle and the reminders that were not omitted, 1 + [m > 5] + [m > 10]  *)
(* of them - and holds no handle of an earlier call.                       *)
(***************************************************************************)
C12_RecordedIsTheNewSet ==
    InValidStartSession =>
        LET c == handler.chat_id
            m == ExpectedMinutes(handler.args)
        IN  /\ RecordedSet(c) = CallJobs(handler.call)
            /\ Len(Recorded(c)) = 1 + Count(m > 5) + Count(m > 10)
            /\ Cardinality(RecordedSet(c)) = Len(Recorded(c))
            /\ RecordedSet(c) =
                  {j.v : j \in {x \in {handler.job_10, handler.job_5, handler.job_end} :
                                   x.some}}
            /\ handler.session_jobs.some =>
                  \A k \in DOMAIN handler.session_jobs.v :
                      handler.session_jobs.v[k] \notin RecordedSet(c)

\* An 11-minute session has replaced an earlier session of the chat: three
\* handles recorded, none of them the earlier ones.
C12_Witness ==
    /\ InValidStartSession
    /\ ExpectedMinutes(handler.args) = 11
    /\ handler.session_jobs.some
    /\ handler.session_jobs.v # <<>>
    /\ Len(Recorded(handler.chat_id)) = 3

(***************************************************************************)
(* C13.  The list recorded for a chat holds only pending notifications:    *)
(* in every reachable state every recorded job is scheduled - a job that   *)
(* fires is dropped from the list, and no fired or cancelled job is in it. *)
(***************************************************************************)
C13_RecordedOnlyScheduled ==
    \A c \in Chats : \A i \in RecordedSet(c) : jobs[i].state = "scheduled"

\* This step runs job i.
FireStep(i) == jobs[i].state = "scheduled" /\ jobs'[i].state = "fired"

(***************************************************************************)
(* C14.  Firing a reminder or an end-of-session job is terminal: apart     *)
(* from sending its message and marking that one job fired, it leaves      *)
(* every chat's recorded list and every other job as they were, and it     *)
(* creates no job.                                                         *)
(***************************************************************************)
C14_FiringIsTerminal ==
    [][ \A i \in DOMAIN jobs :
          FireStep(i) =>
             /\ chat_data' = chat_data
             /\ DOMAIN jobs' = DOMAIN jobs
             /\ \A j \in DOMAIN jobs \ {i} : jobs'[j] = jobs[j]
             /\ jobs'[i] = [jobs[i] EXCEPT !.state = "fired",
                                          !.fired_at = jobs'[i].fired_at,
                                          !.fired_after = jobs'[i].fired_after]
             /\ Len(outbox') = Len(outbox) + 1
             /\ SubSeq(outbox', 1, Len(outbox)) = outbox
             /\ outbox'[Len(outbox')].by = i
             /\ outbox'[Len(outbox')].kind \in {"reminder", "session_end"}
             /\ handler' = handler /\ ncalls' = ncalls /\ app' = app
      ]_vars

\* A reminder has fired; it and the still scheduled end-of-session job of its
\* session are both in the chat's recorded list.
C14_Witness ==
    \E c \in Chats : \E i, j \in RecordedSet(c) :
        /\ jobs[i].state = "fired" /\ jobs[i].callback = "send_reminder"
        /\ jobs[j].state = "scheduled" /\ jobs[j].callback = "send_session_end"

(***************************************************************************)
(* The notification senders on their own.  send_reminder and               *)
(* send_session_end read job.data with .get(), so they accept any payload; *)
(* start_session only ever builds complete payloads.  SenderSpec puts one  *)
(* job with an arbitrary payload on the queue of a running application and *)
(* lets the clock and the job queue run.                                   *)
(***************************************************************************)
PayloadValues == {None, Some(0), Some(10), Some(11)}

Payload(minutes_left, total) ==
    LET d1 == IF minutes_left.some
              THEN DictSet(EmptyDict, "minutes_left", minutes_left.v) ELSE EmptyDict
    IN  IF total.some THEN DictSet(d1, "total", total.v) ELSE d1

SenderWhens == {0, 300, 600}

SenderInit ==
    /\ now = 0
    /\ chat_data = [c \in Chats |-> EmptyDict]
    /\ handler = Idle
    /\ outbox = <<>>
    /\ ncalls = 0
    /\ app = [token |-> [some |-> TRUE, v |-> "123:abc"], pc |-> "polling",
              handlers |-> {"start", "start_session"}]
    /\ \E callback \in {"send_reminder", "send_session_end"}, c \in Chats,
          when \in SenderWhens, minutes_left, total \in PayloadValues :
          jobs = run_once(<<>>, callback, when, c, Payload(minutes_left, total),
                          "job", 0, 0)

SenderNext ==
    \/ \E id \in DOMAIN jobs : Fire(id)
    \/ Tick

SenderSpec == SenderInit /\ [][SenderNext]_vars

\* The payload lacks a field its callback reads.
Malformed(job) ==
    IF job.callback = "send_reminder"
    THEN ~ DictGet(job.data, "minutes_left").some \/ ~ DictGet(job.data, "total").some
    ELSE ~ DictGet(job.data, "total").some

C15_MalformedReminderSendsNothing ==
    \A i \in DOMAIN jobs :
        (jobs[i].state = "fired" /\ jobs[i].callback = "send_reminder"
            /\ Malformed(jobs[i])) => JobMsgs(outbox, i) = {}

(***************************************************************************)
(* Fair timers: the clock keeps moving and the job queue runs every job    *)
(* that is due.                                                            *)
(***************************************************************************)
FairSpec == Spec /\ WF_vars(Tick) /\ WF_vars(\E id \in DOMAIN jobs : Fire(id))

\* Every job that command update n created has fired.
SessionDone(n) ==
    CallJobs(n) # {} /\ \A i \in CallJobs(n) : jobs[i].state = "fired"

\* A later /start_session succeeded for the chat of command update n.
Superseded(n) ==
    \E c \in Chats : n \in Confirmed(c) /\ LatestCall(c) > n

(***************************************************************************)
(* C16.  Under fair timers, when start_session(c, m) succeeds and no later *)
(* start_session succeeds for c, every job it created eventually fires;    *)
(* the end-of-session job fires last, and once it has fired chat c has no  *)
(* scheduled job.                                                          *)
(***************************************************************************)
C16_SessionCompletes ==
    /\ <>[](\A n \in 1..MaxCalls :
               CallJobs(n) # {} => (SessionDone(n) \/ Superseded(n)))
    /\ [](\A c \in Chats : \A e \in ChatJobs(c) :
            (jobs[e].callback = "send_session_end" /\ jobs[e].state = "fired") =>
               /\ \A i \in CallJobs(jobs[e].call) :
                     /\ jobs[i].state = "fired"
                     /\ MsgIndex(i) <= MsgIndex(e)
                     /\ jobs[i].fired_at.v <= jobs[e].fired_at.v
               /\ (jobs[e].call = LatestCall(c) => Scheduled(c) = {}))

\* An 11-minute session has run to its end: its three jobs have fired, the
\* end-of-session job last, and its chat has no scheduled job.
C16_Witness ==
    \E c \in Chats :
        /\ LatestCall(c) > 0
        /\ Cardinality(CallJobs(LatestCall(c))) = 3
        /\ SessionDone(LatestCall(c))
        /\ Scheduled(c) = {}
        /\ \A e \in Ends(LatestCall(c)) : \A i \in CallJobs(LatestCall(c)) :
              MsgIndex(i) <= MsgIndex(e)

\* The replies of start_session and where they are in the outbox.
SessionReplyKinds == {"usage_error", "invalid_input", "confirmation"}
SessionReplies(ob) == {k \in DOMAIN ob : ob[k].kind \in SessionReplyKinds}

(***************************************************************************)
(* C17.  Every /start_session update is answered with exactly one reply,   *)
(* a usage error, an invalid-input error or a confirmation.  The           *)
(* confirmation, which states the total m, is sent iff the call cancelled  *)
(* the old jobs and scheduled the new ones, and when it is sent the new    *)
(* jobs are the chat's recorded list.                                      *)
(***************************************************************************)
C17_OneReplyPerCall ==
    [][ IF StartSessionStep
        THEN LET c == handler'.chat_id
                 n == handler'.call
                 m == ExpectedMinutes(handler'.args)
                 new == {i \in DOMAIN jobs' : jobs'[i].call = n}
                 recorded == chat_data'[c]["sessions"][c]
             IN  /\ n = ncalls'
                 /\ Len(outbox') = Len(outbox) + 1
                 /\ SubSeq(outbox', 1, Len(outbox)) = outbox
                 /\ outbox'[Len(outbox')].chat_id = c
                 /\ outbox'[Len(outbox')].by = n
                 /\ outbox'[Len(outbox')].kind = handler'.reply
                 /\ outbox'[Len(outbox')].kind =
                       (IF handler'.args = <<>> THEN "usage_error"
                        ELSE IF m = 0 THEN "invalid_input" ELSE "confirmation")
                 /\ IF outbox'[Len(outbox')].kind = "confirmation"
                    THEN /\ outbox'[Len(outbox')].total = m
                         /\ new # {}
                         /\ {recorded[k] : k \in DOMAIN recorded} = new
                         /\ \A i \in new : jobs'[i].state = "scheduled"
                         /\ \A i \in Scheduled(c) : jobs'[i].state = "cancelled"
                    ELSE jobs' = jobs /\ chat_data' = chat_data
        ELSE /\ SessionReplies(outbox') = SessionReplies(outbox)
             /\ \A k \in SessionReplies(outbox) : outbox'[k] = outbox[k]
      ]_vars

\* Two /start_session updates have been answered, the first with the
\* invalid-input error and the second, which replaced nothing, with the
\* confirmation of an 11-minute session whose three jobs are recorded.
C17_Witness ==
    /\ InValidStartSession
    /\ handler.call = 2
    /\ {outbox[k].kind : k \in SessionReplies(outbox)} = {"invalid_input", "confirmation"}
    /\ Cardinality(SessionReplies(outbox)) = 2
    /\ \E k \in SessionReplies(outbox) :
          outbox[k].kind = "confirmation" /\ outbox[k].total = 11 /\ outbox[k].by = 2
    /\ Cardinality(RecordedSet(handler.chat_id)) = 3
    /\ RecordedSet(handler.chat_id) = CallJobs(2)

\* The confirmation that command update n was answered with.
ConfirmationOf(n) == outbox[CHOOSE k \in ConfirmationIndex(n) : TRUE]

(***************************************************************************)
(* C18.  Every job created by start_session(c, m) that fires sends exactly *)
(* one message, to chat c, carrying total = m and, for a reminder,         *)
(* minutes_left in {10, 5} with minutes_left < m; a job that has not fired *)
(* has sent nothing.  The guard of send_reminder never suppresses a        *)
(* reminder that start_session scheduled.                                  *)
(***************************************************************************)
C18_FiredJobSendsItsMessage ==
    \A i \in JobIds :
        IF jobs[i].state = "fired"
        THEN /\ Cardinality(JobMsgs(outbox, i)) = 1
             /\ Cardinality(ConfirmationIndex(jobs[i].call)) = 1
             /\ LET msg == outbox[MsgIndex(i)]
                    conf == ConfirmationOf(jobs[i].call)
                IN  /\ msg.chat_id = conf.chat_id
                    /\ msg.chat_id = jobs[i].chat_id
                    /\ IF jobs[i].callback = "send_reminder"
                       THEN /\ msg.kind = "reminder"
                            /\ msg.total = conf.total
                            /\ msg.minutes_left \in {10, 5}
                            /\ msg.minutes_left < conf.total
                       ELSE /\ msg.kind = "session_end"
                            /\ msg.total = Some(conf.total)
        ELSE JobMsgs(outbox, i) = {}

\* The 5-minute reminder and the end-of-session job of a 10-minute session in
\* chat 202 have fired, and chat 202 has received both messages.
C18_Witness ==
    \E i, e \in ChatJobs(202) :
        /\ jobs[i].call = jobs[e].call
        /\ jobs[i].state = "fired" /\ jobs[e].state = "fired"
        /\ \E k \in JobMsgs(outbox, i) :
              outbox[k] = [chat_id |-> 202, kind |-> "reminder",
                           minutes_left |-> 5, total |-> 10, by |-> i]
        /\ \E k \in JobMsgs(outbox, e) :
              outbox[k] = [chat_id |-> 202, kind |-> "session_end",
                           total |-> Some(10), by |-> e]

====
